---- MODULE Spec2Model ----
(***************************************************************************)
(* Model of the Jamef tracking API (src/api.py): the in-memory job         *)
(* registry `jobs`, the submit handler `rastrear` (with its eviction step  *)
(* `limpar_jobs_antigos`), the background coroutine `executar_job` and the *)
(* poll handler `status`.                                                  *)
(*                                                                         *)
(* Scheduling.  `rastrear` and `executar_job` are `async def`: they run on *)
(* the event loop and are atomic between two `await`s.  `status` is a      *)
(* plain `def`: the framework runs it in a worker thread, so each of its   *)
(* statements may interleave with the event loop's statements.             *)
(***************************************************************************)
EXTENDS Integers, Sequences, FiniteSets, TLC

\* ---- bounds of the model ------------------------------------------------
\* number of submits (calls of rastrear) of a run
MaxJobs == 2
\* number of label/value paragraphs of the history pop-up
MaxPares == 3
\* the clock stops advancing here
MaxTime == 3601

\* ---- program constants --------------------------------------------------
\* retention window in seconds: `agora - j["created_at"] > 3600`
RETENCAO == 3600

\* The amounts by which the clock advances between two steps: two steps reach
\* the ages 3600 (kept) and 3601 (evicted).
Passos == {1800, 1801}

\* Python's None
NONE == "None"

JobIds == 1..MaxJobs
\* an id uuid4 never returns
IdNuncaEmitido == 0
\* The worker threads that serve polls.  A poll writes nothing that another
\* poll reads, so one thread shows every interleaving of a poll with the
\* event loop.
Threads == {"t1"}

\* what scrape_jamef returns on success (the dict of lines 161-168)
Resultados == {"resultado"}

\* The exceptions scrape_jamef may raise into `except Exception as e`: any
\* Exception instance, with or without arguments.
Excecoes ==
  { [tipo |-> "TimeoutError", args |-> <<"Timeout 30000ms exceeded.">>],
    [tipo |-> "NotImplementedError", args |-> <<>>] }

\* the placeholder of the local `e` outside the except block
SemExcecao == [tipo |-> "None", args |-> <<>>]

\* str(e) of BaseException: '' without arguments, str(args[0]) with one
Str(e) == IF Len(e.args) = 0 THEN "" ELSE e.args[1]

\* timeouts of api.py, in milliseconds
TIMEOUT_SELECTOR == 30000
TIMEOUT_NAVEGACAO == 45000
TIMEOUT_POPUP == 20000

\* ---- scrape_jamef (api.py) and consulta_jamef (consulta_jamef.py) ----------
Arquivos == {"api", "cli"}

\* the invoice numbers of the requests; the carrier has a record of the first
Notas == {"123456", "999999"}
NotasConhecidas == {"123456"}

\* the awaited steps inside `try`, in the order of the source
Roteiro ==
  << "goto", "preenche_nf", "submete_nf", "preenche_cnpj", "submete_cnpj",
     "espera_resultado", "dados_pagina", "abre_historico", "historico" >>

\* the timeout of each step (the clicks and page.evaluate take no timeout
\* argument: a click has the driver's default, 30 s)
TimeoutDe(arquivo, passo) ==
  IF arquivo = "api"
    THEN CASE passo = "goto" -> TIMEOUT_NAVEGACAO
           [] passo \in {"preenche_nf", "preenche_cnpj"} -> TIMEOUT_SELECTOR
           [] passo = "espera_resultado" -> TIMEOUT_NAVEGACAO
           [] passo = "abre_historico" -> TIMEOUT_POPUP
           [] OTHER -> 30000
    ELSE CASE passo \in {"preenche_nf", "preenche_cnpj"} -> 10000
           [] passo = "espera_resultado" -> 15000
           [] passo = "abre_historico" -> 8000
           [] OTHER -> 30000

\* what each step waits for
AlvoDe(passo) ==
  CASE passo = "goto" -> "https://www.jamef.com.br/"
    [] passo = "preenche_nf" -> "input[placeholder*=\"nota\"]"
    [] passo \in {"submete_nf", "submete_cnpj"} -> "button[type=\"submit\"]"
    [] passo = "preenche_cnpj" -> "input[placeholder*=\"CPF\"]"
    [] passo = "espera_resultado" -> "**/rastrear/**"
    [] passo = "abre_historico" -> ".popup-content .content"
    [] OTHER -> "page.evaluate"

\* The exception a failing step raises: the driver's timeout error, whose
\* message (here the list of its words) names the timeout and the target.
ErroDoPasso(arquivo, passo) ==
  [tipo |-> "TimeoutError",
   args |-> << <<"Timeout", ToString(TimeoutDe(arquivo, passo)), "ms exceeded.",
                "waiting for", AlvoDe(passo)>> >>]

\* exceptions raised outside `try`
ErroPlaywright == [tipo |-> "NotImplementedError", args |-> <<>>]
ErroLaunch == [tipo |-> "Error", args |-> << <<"BrowserType.launch:", "Executable doesn't exist">> >>]
ErroNewPage == [tipo |-> "Error", args |-> << <<"Browser.new_page:", "Target closed">> >>]
ErroClose == [tipo |-> "Error", args |-> << <<"Browser.close:", "Connection closed">> >>]
ErroInput == [tipo |-> "EOFError", args |-> << <<"EOF when reading a line">> >>]

\* the summary fields page.evaluate finds on the results page
Dados ==
  { [previsao |-> NONE, origem |-> NONE, destino |-> NONE],
    [previsao |-> "10/01", origem |-> "SP", destino |-> "RJ"] }

\* ---- the history scan of page.evaluate (lines 130-159) ---------------------
\* JavaScript's undefined
UNDEFINED == "undefined"

\* the object literal keyMap
keyMap ==
  ("Data" :> "data") @@ ("Status" :> "status") @@
  ("Estado origem" :> "estado_origem") @@ ("Município origem" :> "municipio_origem") @@
  ("Estado destino" :> "estado_destino") @@ ("Município destino" :> "municipio_destino")

\* keyMap is a plain object: a name it does not define is looked up in
\* Object.prototype, where "constructor" is the function Object.
ObjectPrototype == ("constructor" :> "function Object() { [native code] }")

\* keyMap[rawKey] (line 148); as a property key the value is its string
Campo(rawKey) ==
  IF rawKey \in DOMAIN keyMap THEN keyMap[rawKey]
  ELSE IF rawKey \in DOMAIN ObjectPrototype THEN ObjectPrototype[rawKey]
  ELSE UNDEFINED

\* `if (field)`: undefined is falsy, a non-empty string or a function truthy
Truthy(field) == field # UNDEFINED

\* the object {} and Object.keys(current).length > 0
ObjetoVazio == <<>>
TemChaves(current) == DOMAIN current # {}

\* (mutant) a scan that pushes the in-progress record at every "Data", empty or not
RECURSIVE ScanSemTeste(_, _, _, _)
ScanSemTeste(ps, i, entries, current) ==
  IF i > Len(ps)
    THEN IF TemChaves(current) THEN Append(entries, current) ELSE entries
    ELSE LET rawKey == ps[i].rotulo
             field == Campo(rawKey)
             value == ps[i].valor
             entries1 == IF rawKey = "Data" THEN Append(entries, current) ELSE entries
             current1 == IF rawKey = "Data" THEN ObjetoVazio ELSE current
             current2 == IF Truthy(field) THEN (field :> value) @@ current1 ELSE current1
         IN ScanSemTeste(ps, i + 1, entries1, current2)

\* The loop of lines 144-155 from paragraph i on, and lines 156-157 after
\* the last one.  ps[i].rotulo is rawKey (the text of <b> without its
\* colon), ps[i].valor the rest of the paragraph.
RECURSIVE Scan(_, _, _, _)
Scan(ps, i, entries, current) ==
  IF i > Len(ps)
    THEN IF TemChaves(current) THEN Append(entries, current) ELSE entries
    ELSE LET rawKey == ps[i].rotulo
             field == Campo(rawKey)
             value == ps[i].valor
             entries1 == IF rawKey = "Data" /\ TemChaves(current)
                           THEN Append(entries, current) ELSE entries
             current1 == IF rawKey = "Data" THEN ObjetoVazio ELSE current
             current2 == IF Truthy(field) THEN (field :> value) @@ current1 ELSE current1
         IN Scan(ps, i + 1, entries1, current2)

\* the value page.evaluate returns for the paragraphs ps of the pop-up
Historico(ps) == Scan(ps, 1, <<>>, ObjetoVazio)

\* dict.get(k): None for a missing key
Get(d, k) == IF k \in DOMAIN d THEN d[k] ELSE NONE

\* (mutant) the status of the last event
StatusAtualUltimo(historico) ==
  IF historico # <<>> THEN Get(historico[Len(historico)], "status") ELSE NONE

\* line 166: historico[0].get("status") if historico else None
StatusAtual(historico) ==
  IF historico # <<>> THEN Get(historico[1], "status") ELSE NONE

\* the labels and values of the paragraphs the pop-up may show: the
\* recognized labels, one that no object knows and one that Object.prototype
\* knows
Rotulos == {"Data", "Status", "Município destino", "Peso", "constructor"}
Valores == {"a", "b"}
Paragrafos == [rotulo : Rotulos, valor : Valores]
RECURSIVE ListasAte(_)
ListasAte(n) ==
  IF n = 0 THEN {<<>>}
  ELSE LET menores == ListasAte(n - 1)
       IN menores \cup {Append(l, x) : l \in {m \in menores : Len(m) = n - 1}, x \in Paragrafos}
Popups == ListasAte(MaxPares)

\* the dict of lines 161-168 (api.py) and of lines 114-118 (consulta_jamef.py)
Retorno(arquivo, numero_nf, dados_pagina, historico) ==
  IF arquivo = "api"
    THEN [nf |-> numero_nf,
          origem |-> dados_pagina.origem,
          destino |-> dados_pagina.destino,
          previsao_entrega |-> dados_pagina.previsao,
          status_atual |-> StatusAtual(historico),
          historico |-> historico]
    ELSE [nf |-> numero_nf,
          previsao_entrega |-> dados_pagina.previsao,
          historico |-> historico]

SemRetorno == [nf |-> NONE]
SemDados == [previsao |-> NONE, origem |-> NONE, destino |-> NONE]

\* no call of scrape_jamef is in progress
ScrapeParado ==
  [arquivo |-> "api", pc |-> "parado", numero_nf |-> NONE, browser |-> "nenhum",
   passo |-> 1, feitos |-> <<>>, dados |-> SemDados, pares |-> <<>>,
   historico |-> <<>>, retorno |-> SemRetorno, e |-> SemExcecao]

VARIABLES
  jobs,       \* the dict `jobs`: job_id -> [status, result, error, created_at]
  removidos,  \* the inner dicts deleted from `jobs` (still alive for a holder of a reference)
  proximo,    \* the number of ids uuid4 has produced, plus one
  now,        \* time.time()
  tarefa,     \* per job id: the background task executar_job(job_id, ...)
  chamadas,   \* per job id: how many times scrape_jamef was invoked for it
  escritas,   \* per job id: how many times its status was written by executar_job
  poll,       \* per worker thread: the call of status(job_id) it is serving
  scrape      \* one call of scrape_jamef / consulta_jamef: its position and locals

vars == <<jobs, removidos, proximo, now, tarefa, chamadas, escritas, poll, scrape>>

\* ---- initial state ------------------------------------------------------
TarefaInicial == [pc |-> "nao_criada", resultado |-> NONE, e |-> SemExcecao]

PollOcioso ==
  [pc |-> "ocioso", job_id |-> IdNuncaEmitido, status |-> NONE, result |-> NONE,
   error |-> NONE, resp |-> "nenhuma", t229 |-> 0]

Init ==
  /\ jobs = <<>>
  /\ removidos = <<>>
  /\ proximo = 1
  /\ now = 0
  /\ tarefa = [j \in JobIds |-> TarefaInicial]
  /\ chamadas = [j \in JobIds |-> 0]
  /\ escritas = [j \in JobIds |-> 0]
  /\ poll = [p \in Threads |-> PollOcioso]
  /\ scrape = ScrapeParado

\* ---- the clock ----------------------------------------------------------
Tick ==
  /\ \E d \in Passos :
       /\ now + d <= MaxTime
       /\ now' = now + d
  /\ UNCHANGED <<jobs, removidos, proximo, tarefa, chamadas, escritas, poll, scrape>>

\* ---- the event loop -----------------------------------------------------
\* A coroutine is between two statements that no `await` separates: no other
\* coroutine runs until it has executed the second one.
LoopOcupado == \E j \in JobIds : tarefa[j].pc \in {"L179", "L182"}

\* (mutant) the comparison of line 35 written with >=
Expirados_ge(js, agora) == {jid \in DOMAIN js : agora - js[jid].created_at >= RETENCAO}

\* limpar_jobs_antigos, line 35: the ids to delete
Expirados(js, agora) == {jid \in DOMAIN js : agora - js[jid].created_at > RETENCAO}

\* (mutant) an eviction that spares the jobs still "processing"
limpar_so_terminais(js, agora) ==
  [jid \in {k \in DOMAIN js : k \notin Expirados(js, agora) \/ js[k].status = "processing"}
     |-> js[jid]]

\* limpar_jobs_antigos, lines 36-37: the dict after the deletions
limpar_jobs_antigos(js, agora) ==
  [jid \in DOMAIN js \ Expirados(js, agora) |-> js[jid]]

\* (mutant) an id generator that returns its first id again
uuid4_repetido == IF proximo > 1 THEN 1 ELSE proximo

\* (mutant) an id generator that returns the previous id once more
uuid4_anterior == IF proximo > 1 THEN proximo - 1 ELSE proximo

\* str(uuid.uuid4()): an id never produced before
uuid4 == proximo

\* the dict literal of lines 205-210
NovoJob(agora) ==
  [status |-> "processing", result |-> NONE, error |-> NONE, created_at |-> agora]

\* (mutant) a submit that awaits the fetch itself before it returns
rastrear_espera ==
  /\ ~LoopOcupado
  /\ proximo <= MaxJobs
  /\ LET job_id == uuid4
         restantes == limpar_jobs_antigos(jobs, now)
     IN /\ jobs' = (job_id :> [NovoJob(now) EXCEPT !.status = "done", !.result = "resultado"])
                      @@ restantes
        /\ removidos' = [jid \in DOMAIN jobs \ DOMAIN restantes |-> jobs[jid]] @@ removidos
        /\ tarefa' = [tarefa EXCEPT ![job_id] = [TarefaInicial EXCEPT !.pc = "fim"]]
        /\ chamadas' = [chamadas EXCEPT ![job_id] = 1]
        /\ escritas' = [escritas EXCEPT ![job_id] = 1]
  /\ proximo' = proximo + 1
  /\ UNCHANGED <<now, poll, scrape>>

\* GET /rastrear/{numero_nf}: eviction, creation, scheduling
rastrear ==
  /\ ~LoopOcupado
  /\ proximo <= MaxJobs
  /\ LET job_id == uuid4
         restantes == limpar_jobs_antigos(jobs, now)
     IN /\ jobs' = (job_id :> NovoJob(now)) @@ restantes
        /\ removidos' = [jid \in DOMAIN jobs \ DOMAIN restantes |-> jobs[jid]] @@ removidos
        /\ tarefa' = [tarefa EXCEPT ![job_id] = [TarefaInicial EXCEPT !.pc = "agendada"]]
        /\ chamadas' = [chamadas EXCEPT ![job_id] = 0]
        /\ escritas' = [escritas EXCEPT ![job_id] = 0]
  /\ proximo' = proximo + 1
  /\ UNCHANGED <<now, poll, scrape>>

\* ---- executar_job: the background task of one job ------------------------
\* BackgroundTasks starts the coroutine after the response was sent; it runs
\* up to `await scrape_jamef(...)` of line 177.
executar_job_inicia(j) ==
  /\ ~LoopOcupado
  /\ tarefa[j].pc = "agendada"
  /\ tarefa' = [tarefa EXCEPT ![j].pc = "L177"]
  /\ chamadas' = [chamadas EXCEPT ![j] = @ + 1]
  /\ UNCHANGED <<jobs, removidos, proximo, now, escritas, poll, scrape>>

\* jobs[job_id]["status"] = s for a key that is in the dict
EscreveStatus(js, j, s) == [js EXCEPT ![j].status = s]

\* jobs[job_id]["result"] = resultado
EscreveResult(js, j, r) == [js EXCEPT ![j].result = r]

\* jobs[job_id]["error"] = str(e)
EscreveError(js, j, e) == [js EXCEPT ![j].error = Str(e)]

\* the KeyError of jobs[job_id] for a key that is not in the dict
KeyError(j) == [tipo |-> "KeyError", args |-> <<ToString(j)>>]

\* (mutant) a handler that creates the entry it does not find
HandlerReinsere(j) ==
  /\ jobs' = (j :> [status |-> "error", result |-> NONE, error |-> NONE, created_at |-> now])
                @@ jobs
  /\ tarefa' = [tarefa EXCEPT ![j] = [TarefaInicial EXCEPT !.pc = "fim"]]
  /\ UNCHANGED escritas

\* Lines 180-181 for a job that is no longer in the dict: the handler's own
\* jobs[job_id] raises KeyError, which nothing catches.
HandlerSemJob(j) ==
  /\ tarefa' = [tarefa EXCEPT ![j] = [pc |-> "excecao", resultado |-> NONE, e |-> KeyError(j)]]
  /\ UNCHANGED <<jobs, escritas>>

\* Line 177 returns `resultado` and line 178 runs.  With the job in the dict
\* the status is written; without it line 178 raises KeyError into the
\* handler of line 180.
executar_job_L178(j, r) ==
  /\ ~LoopOcupado
  /\ tarefa[j].pc = "L177"
  /\ IF j \in DOMAIN jobs
       THEN /\ jobs' = EscreveStatus(jobs, j, "done")
            /\ escritas' = [escritas EXCEPT ![j] = @ + 1]
            /\ tarefa' = [tarefa EXCEPT ![j] = [pc |-> "L179", resultado |-> r, e |-> SemExcecao]]
       ELSE HandlerSemJob(j)
  /\ UNCHANGED <<removidos, proximo, now, chamadas, poll, scrape>>

\* Line 179
executar_job_L179(j) ==
  /\ tarefa[j].pc = "L179"
  /\ jobs' = EscreveResult(jobs, j, tarefa[j].resultado)
  /\ tarefa' = [tarefa EXCEPT ![j] = [TarefaInicial EXCEPT !.pc = "fim"]]
  /\ UNCHANGED <<removidos, proximo, now, chamadas, escritas, poll, scrape>>

\* (mutant) a handler that swallows the exception and writes nothing
executar_job_L181_engole(j, e) ==
  /\ ~LoopOcupado
  /\ tarefa[j].pc = "L177"
  /\ tarefa' = [tarefa EXCEPT ![j] = [TarefaInicial EXCEPT !.pc = "fim"]]
  /\ UNCHANGED <<jobs, escritas, removidos, proximo, now, chamadas, poll, scrape>>

\* Line 177 raises `e`; lines 180-181 run.
executar_job_L181(j, e) ==
  /\ ~LoopOcupado
  /\ tarefa[j].pc = "L177"
  /\ IF j \in DOMAIN jobs
       THEN /\ jobs' = EscreveStatus(jobs, j, "error")
            /\ escritas' = [escritas EXCEPT ![j] = @ + 1]
            /\ tarefa' = [tarefa EXCEPT ![j] = [pc |-> "L182", resultado |-> NONE, e |-> e]]
       ELSE HandlerSemJob(j)
  /\ UNCHANGED <<removidos, proximo, now, chamadas, poll, scrape>>

\* Line 182
executar_job_L182(j) ==
  /\ tarefa[j].pc = "L182"
  /\ jobs' = EscreveError(jobs, j, tarefa[j].e)
  /\ tarefa' = [tarefa EXCEPT ![j] = [TarefaInicial EXCEPT !.pc = "fim"]]
  /\ UNCHANGED <<removidos, proximo, now, chamadas, escritas, poll, scrape>>

\* ---- status: GET /status/{job_id}, served by a worker thread -------------
\* the inner dict a reference `j` points to, in the registry or deleted from it
Objeto(id) == IF id \in DOMAIN jobs THEN jobs[id] ELSE removidos[id]

\* the ids a client may poll: those issued so far and one never issued
IdsConsulta == (1..(proximo - 1)) \cup {IdNuncaEmitido}

status_inicia(p, id) ==
  /\ poll[p].pc = "ocioso"
  /\ poll' = [poll EXCEPT ![p] = [PollOcioso EXCEPT !.pc = "L229", !.job_id = id]]
  /\ UNCHANGED <<jobs, removidos, proximo, now, tarefa, chamadas, escritas, scrape>>

\* Lines 229-230: `if job_id not in jobs: raise HTTPException(404)`
\* (t229 records when the test ran; the code does not read it)
status_L229(p) ==
  /\ poll[p].pc = "L229"
  /\ poll' = IF poll[p].job_id \notin DOMAIN jobs
               THEN [poll EXCEPT ![p].pc = "respondida", ![p].resp = "404", ![p].t229 = now]
               ELSE [poll EXCEPT ![p].pc = "L232", ![p].t229 = now]
  /\ UNCHANGED <<jobs, removidos, proximo, now, tarefa, chamadas, escritas, scrape>>

\* Line 232: `j = jobs[job_id]`; a KeyError here is an unhandled exception of
\* the handler (the framework answers 500).
status_L232(p) ==
  /\ poll[p].pc = "L232"
  /\ poll' = IF poll[p].job_id \notin DOMAIN jobs
               THEN [poll EXCEPT ![p].pc = "respondida", ![p].resp = "500"]
               ELSE [poll EXCEPT ![p].pc = "L235"]
  /\ UNCHANGED <<jobs, removidos, proximo, now, tarefa, chamadas, escritas, scrape>>

\* Line 235: j["status"]
status_L235(p) ==
  /\ poll[p].pc = "L235"
  /\ poll' = [poll EXCEPT ![p].pc = "L236", ![p].status = Objeto(poll[p].job_id).status]
  /\ UNCHANGED <<jobs, removidos, proximo, now, tarefa, chamadas, escritas, scrape>>

\* Line 236: j["result"]
status_L236(p) ==
  /\ poll[p].pc = "L236"
  /\ poll' = [poll EXCEPT ![p].pc = "L237", ![p].result = Objeto(poll[p].job_id).result]
  /\ UNCHANGED <<jobs, removidos, proximo, now, tarefa, chamadas, escritas, scrape>>

\* Lines 237-238: j["error"], and the response is returned
status_L237(p) ==
  /\ poll[p].pc = "L237"
  /\ poll' = [poll EXCEPT ![p].pc = "respondida", ![p].resp = "200",
                          ![p].error = Objeto(poll[p].job_id).error]
  /\ UNCHANGED <<jobs, removidos, proximo, now, tarefa, chamadas, escritas, scrape>>

\* the worker thread is free for the next request
status_fim(p) ==
  /\ poll[p].pc = "respondida"
  /\ poll' = [poll EXCEPT ![p] = PollOcioso]
  /\ UNCHANGED <<jobs, removidos, proximo, now, tarefa, chamadas, escritas, scrape>>

\* ---- specification --------------------------------------------------------
executar_job(j) ==
  \/ executar_job_inicia(j)
  \/ \E r \in Resultados : executar_job_L178(j, r)
  \/ executar_job_L179(j)
  \/ \E e \in Excecoes : executar_job_L181(j, e)
  \/ executar_job_L182(j)

status(p) ==
  \/ \E id \in IdsConsulta : status_inicia(p, id)
  \/ status_L229(p)
  \/ status_L232(p)
  \/ status_L235(p)
  \/ status_L236(p)
  \/ status_L237(p)
  \/ status_fim(p)

Next ==
  \/ Tick
  \/ rastrear
  \/ \E j \in JobIds : executar_job(j)
  \/ \E p \in Threads : status(p)

Spec == Init /\ [][Next]_vars

\* The event loop alone: submits, background tasks and the clock.  No step of
\* a poll writes a variable that a submit or a task reads, so the tasks run
\* here as they do under Next.
LoopNext ==
  \/ Tick
  \/ rastrear
  \/ \E j \in JobIds : executar_job(j)

\* The event loop runs every ready coroutine and every wait of scrape_jamef
\* ends (with a value or a timeout error), so each step of a task is taken.
FairSpec ==
  /\ Init /\ [][LoopNext]_vars
  /\ \A j \in JobIds : WF_vars(executar_job(j))

\* ---- one call of scrape_jamef / consulta_jamef ------------------------------
OutrasVars == <<jobs, removidos, proximo, now, tarefa, chamadas, escritas, poll>>

\* scrape_jamef(numero_nf) of api.py or consulta_jamef(numero_nf) of
\* consulta_jamef.py is called
scrape_chama(arquivo, nf) ==
  /\ scrape.pc = "parado"
  /\ scrape' = [scrape EXCEPT !.arquivo = arquivo, !.numero_nf = nf, !.pc = "playwright"]
  /\ UNCHANGED OutrasVars

\* `async with async_playwright() as p` is entered (api.py 73, cli 15); when
\* the driver does not start, the call raises with nothing to clean up
scrape_playwright(ok) ==
  /\ scrape.pc = "playwright"
  /\ scrape' = IF ok THEN [scrape EXCEPT !.pc = "launch"]
                     ELSE [scrape EXCEPT !.pc = "levantou", !.e = ErroPlaywright]
  /\ UNCHANGED OutrasVars

\* `browser = await p.chromium.launch(...)` (api.py 74-82, cli 16)
scrape_launch(ok) ==
  /\ scrape.pc = "launch"
  /\ scrape' = IF ok THEN [scrape EXCEPT !.pc = "new_page", !.browser = "aberto"]
                     ELSE [scrape EXCEPT !.pc = "aexit", !.e = ErroLaunch]
  /\ UNCHANGED OutrasVars

\* `page = await browser.new_page()` (api.py 83, cli 17), before `try`: a
\* failure here skips `finally` and leaves through the `async with`
scrape_new_page(ok) ==
  /\ scrape.pc = "new_page"
  /\ scrape' = IF ok THEN [scrape EXCEPT !.pc = "try", !.passo = 1]
                     ELSE [scrape EXCEPT !.pc = "aexit", !.e = ErroNewPage]
  /\ UNCHANGED OutrasVars

PassoAtual == Roteiro[scrape.passo]

\* the step at hand completes and the next statement of `try` is reached
Avanca(r) ==
  [r EXCEPT !.feitos = Append(@, Roteiro[r.passo]),
            !.passo = @ + 1,
            !.pc = IF r.passo = Len(Roteiro) THEN "return" ELSE "try"]

\* The carrier shows the results page only for an invoice it has a record of:
\* for any other, wait_for_url(...) cannot succeed.
PodeConcluir(r) ==
  Roteiro[r.passo] = "espera_resultado" => r.numero_nf \in NotasConhecidas

\* a step of `try` other than the two page.evaluate calls succeeds:
\* goto (api.py 86-91), wait_for_selector + fill (93-94, 98-99), click
\* (95-96, 100), wait_for_url (101-102), click + wait_for_selector (126-128)
scrape_passo ==
  /\ scrape.pc = "try"
  /\ PassoAtual \notin {"dados_pagina", "historico"}
  /\ PodeConcluir(scrape)
  /\ scrape' = Avanca(scrape)
  /\ UNCHANGED OutrasVars

\* `dados_pagina = await page.evaluate(...)` (api.py 104-124, cli 46-61)
scrape_dados_pagina(d) ==
  /\ scrape.pc = "try"
  /\ PassoAtual = "dados_pagina"
  /\ scrape' = [Avanca(scrape) EXCEPT !.dados = d]
  /\ UNCHANGED OutrasVars

\* `historico = await page.evaluate(...)` (api.py 130-159, cli 68-103) over
\* the paragraphs ps of the popup
scrape_historico ==
  /\ scrape.pc = "try"
  /\ PassoAtual = "historico"
  /\ \E ps \in Popups :
       scrape' = [Avanca(scrape) EXCEPT !.pares = ps, !.historico = Historico(ps)]
  /\ UNCHANGED OutrasVars

\* (mutant) a failing step is swallowed and the next step runs
scrape_falha_continua ==
  /\ scrape.pc = "try"
  /\ scrape' = [scrape EXCEPT !.passo = @ + 1,
                              !.pc = IF scrape.passo = Len(Roteiro) THEN "return" ELSE "try"]
  /\ UNCHANGED OutrasVars

\* The step at hand raises: control leaves `try` for `finally` (api.py 170;
\* in consulta_jamef.py through `except`, which prints and re-raises, 120-122)
scrape_falha ==
  /\ scrape.pc = "try"
  /\ scrape' = [scrape EXCEPT !.pc = "finally",
                              !.e = ErroDoPasso(scrape.arquivo, PassoAtual)]
  /\ UNCHANGED OutrasVars

\* `return {...}` (api.py 161-168, cli 114-118): the value is kept while
\* `finally` runs
scrape_return ==
  /\ scrape.pc = "return"
  /\ scrape' = [scrape EXCEPT
                  !.retorno = Retorno(scrape.arquivo, scrape.numero_nf,
                                      scrape.dados, scrape.historico),
                  !.pc = "finally"]
  /\ UNCHANGED OutrasVars

\* what can happen in `finally`: api.py 171 is `await browser.close()`;
\* consulta_jamef.py 125-126 reads a line from the terminal first
Desfechos(arquivo) ==
  IF arquivo = "cli" THEN {"ok", "close_falha", "input_falha"}
                     ELSE {"ok", "close_falha"}

\* `finally`: an exception raised here replaces the pending return value or
\* exception
scrape_finally(d) ==
  /\ scrape.pc = "finally"
  /\ d \in Desfechos(scrape.arquivo)
  /\ scrape' =
       CASE d = "ok" -> [scrape EXCEPT !.pc = "aexit", !.browser = "fechado"]
         [] d = "close_falha" ->
              [scrape EXCEPT !.pc = "aexit", !.e = ErroClose, !.retorno = SemRetorno]
         [] d = "input_falha" ->
              [scrape EXCEPT !.pc = "aexit", !.e = ErroInput, !.retorno = SemRetorno]
  /\ UNCHANGED OutrasVars

\* (mutant) leaving the `async with` block keeps the browser process
SaiDoPlaywright_deixa(browser) == browser

\* Leaving the `async with async_playwright()` block stops the driver, and
\* the driver's end closes every browser it launched.
SaiDoPlaywright(browser) == IF browser = "aberto" THEN "fechado" ELSE browser

\* the end of the `async with` block (api.py 73, cli 15): the call returns
\* its value or raises the pending exception
scrape_aexit ==
  /\ scrape.pc = "aexit"
  /\ scrape' = [scrape EXCEPT
                  !.browser = SaiDoPlaywright(scrape.browser),
                  !.pc = IF scrape.e = SemExcecao THEN "retornou" ELSE "levantou"]
  /\ UNCHANGED OutrasVars

ScrapeNext ==
  \/ \E arquivo \in Arquivos, nf \in Notas : scrape_chama(arquivo, nf)
  \/ \E ok \in BOOLEAN : scrape_playwright(ok)
  \/ \E ok \in BOOLEAN : scrape_launch(ok)
  \/ \E ok \in BOOLEAN : scrape_new_page(ok)
  \/ scrape_passo
  \/ \E d \in Dados : scrape_dados_pagina(d)
  \/ scrape_historico
  \/ scrape_falha
  \/ scrape_return
  \/ \E d \in {"ok", "close_falha", "input_falha"} : scrape_finally(d)
  \/ scrape_aexit

ScrapeSpec == Init /\ [][ScrapeNext]_vars

\* ---- properties ------------------------------------------------------------
Terminal == {"done", "error"}

\* the background task of job j has returned or has died of an exception
Terminou(j) == tarefa[j].pc \in {"fim", "excecao"}

\* a status/result/error triple is processing, or one complete terminal outcome
Consistente(r) ==
  /\ r.status \in {"processing", "done", "error"}
  /\ (r.result # NONE) <=> (r.status = "done")
  /\ (r.error # NONE) <=> (r.status = "error")

\* the polls that were answered with a job's view
Vistas == {p \in Threads : poll[p].pc = "respondida" /\ poll[p].resp = "200"}

\* C1: a poll answered with a view before the job's background execution has
\* completed says "processing", with result and error absent.
C1_PollAntesDoFim ==
  \A p \in Vistas :
    ~Terminou(poll[p].job_id) =>
      /\ poll[p].status = "processing"
      /\ poll[p].result = NONE
      /\ poll[p].error = NONE

\* C2: no partial job state is observable: in the registry and in every view
\* a poll returns, result is present iff status is "done" and error is
\* present iff status is "error".
C2_SemEstadoParcial ==
  /\ \A j \in DOMAIN jobs : Consistente(jobs[j])
  /\ \A p \in Vistas : Consistente(poll[p])

Emitidos == 1..(proximo - 1)

\* C4 as claimed: a background execution that has ended has invoked the
\* fetch once and has written the status of its job once.
C4_UmaEscritaTerminal ==
  \A j \in Emitidos :
    Terminou(j) => chamadas[j] = 1 /\ escritas[j] = 1

\* C4 amended: every scheduled background execution ends, having invoked
\* the fetch exactly once; it writes the status exactly once ("done" or
\* "error") when its job is in the registry as the fetch ends, and writes
\* nothing when the job was evicted before.
C4_ExecucaoTermina ==
  /\ [](\A j \in Emitidos :
          /\ chamadas[j] <= 1 /\ escritas[j] <= 1
          /\ tarefa[j].pc # "agendada" => chamadas[j] = 1
          /\ tarefa[j].pc = "fim" =>
               escritas[j] = 1 /\ Objeto(j).status \in Terminal
          /\ tarefa[j].pc = "excecao" =>
               escritas[j] = 0 /\ j \notin DOMAIN jobs /\ Objeto(j).status = "processing")
  /\ \A j \in JobIds : (tarefa[j].pc = "agendada") ~> Terminou(j)

\* C4 witness: one execution ended after a fetch that raised, with its one
\* status write, and another ended without a write, its job evicted before.
C4_Witness ==
  \E j, k \in Emitidos :
    /\ tarefa[j].pc = "fim" /\ Objeto(j).status = "error" /\ escritas[j] = 1
    /\ tarefa[k].pc = "excecao" /\ escritas[k] = 0

\* ---- C5 -------------------------------------------------------------------
\* C5: executar_job never ends with an unhandled exception; a fetch that
\* raised leaves the job in status "error".
C5_SemExcecaoNaoTratada ==
  \A j \in Emitidos :
    /\ tarefa[j].pc # "excecao"
    /\ tarefa[j].pc = "L182" => jobs[j].status = "error"

\* ---- C6 -------------------------------------------------------------------
\* C6: a job that has reached "error" (its background execution has
\* returned) has no result and a non-empty error message.
C6_ErroComMensagem ==
  \A j \in DOMAIN jobs :
    (jobs[j].status = "error" /\ tarefa[j].pc = "fim") =>
      /\ jobs[j].result = NONE
      /\ jobs[j].error # NONE
      /\ jobs[j].error # ""

\* ---- C7 -------------------------------------------------------------------
\* the polls that were answered, whatever the answer
Respondidas == {p \in Threads : poll[p].pc = "respondida"}

\* the polls whose membership test (line 229) has run
Testadas == {p \in Threads : poll[p].pc \notin {"ocioso", "L229"}}

\* C7 as claimed: the membership test of a poll of an issued job finds the
\* job absent (the poll is answered not-found) when it runs after
\* created_at + 3600, and finds it present when it runs before that.
C7_AusenteAposJanela ==
  \A p \in Testadas :
    poll[p].job_id \in Emitidos =>
      (poll[p].t229 > Objeto(poll[p].job_id).created_at + RETENCAO)
        <=> (poll[p].resp = "404")

\* C7 amended: a job is in the registry at every time up to created_at +
\* 3600; it leaves the registry only in the eviction step of a submit that
\* runs later than that, every submit removes the jobs then older than 3600,
\* and a removed job never comes back.  A poll's membership test answers
\* not-found exactly for the ids that are not in the registry as it runs.
C7_Retencao ==
  /\ [](\A j \in Emitidos :
          now <= Objeto(j).created_at + RETENCAO => j \in DOMAIN jobs)
  /\ [][/\ \A j \in DOMAIN jobs :
             j \notin DOMAIN jobs' =>
               proximo' = proximo + 1 /\ now > jobs[j].created_at + RETENCAO
        /\ proximo' = proximo + 1 =>
             \A j \in DOMAIN jobs' : now' <= jobs'[j].created_at + RETENCAO
        /\ \A j \in DOMAIN removidos : j \notin DOMAIN jobs' /\ j \in DOMAIN removidos'
        /\ \A p \in Threads :
             (poll[p].pc = "L229" /\ poll'[p].pc # "L229") =>
               (poll'[p].resp = "404") <=> (poll[p].job_id \notin DOMAIN jobs)]_vars

\* C7 witness: a poll found a job by a test that ran after the job's window,
\* and another job has been evicted.
C7_Witness ==
  /\ \E p \in Vistas :
       poll[p].t229 > Objeto(poll[p].job_id).created_at + RETENCAO
  /\ DOMAIN removidos # {}

C9_ConsultaSemEfeito ==
  [][\A p \in Threads :
       poll'[p] # poll[p] =>
         /\ jobs' = jobs
         /\ poll[p].pc = "L229" =>
              IF poll[p].job_id \in DOMAIN jobs
                THEN poll'[p].pc = "L232"
                ELSE poll'[p].resp = "404"
         /\ poll[p].pc = "L232" => poll'[p].pc = "L235"
         /\ (poll[p].pc = "L235" /\ poll[p].job_id \in DOMAIN jobs) =>
              poll'[p].status = jobs[poll[p].job_id].status
         /\ (poll[p].pc = "L236" /\ poll[p].job_id \in DOMAIN jobs) =>
              poll'[p].result = jobs[poll[p].job_id].result
         /\ (poll[p].pc = "L237" /\ poll[p].job_id \in DOMAIN jobs) =>
              poll'[p].error = jobs[poll[p].job_id].error /\ poll'[p].resp = "200"]_vars

\* ---- C10 ------------------------------------------------------------------
\* C10: a poll ends in the job's view or in not-found, never in another
\* failure.
C10_SoDoisDesfechos ==
  \A p \in Respondidas : poll[p].resp \in {"200", "404"}

\* ---- properties of one call of scrape_jamef ----------------------------------
\* the call holds a value to return (from `return` on, unless `finally` raised)
TemRetorno == scrape.pc \in {"finally", "aexit", "retornou"} /\ scrape.retorno # SemRetorno

\* the call has ended, with a value or with an exception
Acabou == scrape.pc \in {"retornou", "levantou"}

\* C11: the current status of a result is the status of the first event of its
\* history, and is absent when the history is empty or its first event has no
\* status.
C11_StatusAtual ==
  (TemRetorno /\ scrape.arquivo = "api") =>
    LET h == scrape.retorno.historico
        sa == scrape.retorno.status_atual
    IN /\ (h = <<>>) => sa = NONE
       /\ (h # <<>> /\ "status" \notin DOMAIN h[1]) => sa = NONE
       /\ (h # <<>> /\ "status" \in DOMAIN h[1]) => sa = h[1]["status"]

C11_Witness ==
  /\ scrape.pc = "retornou" /\ scrape.arquivo = "api"
  /\ Len(scrape.retorno.historico) = 2
  /\ \A k \in 1..2 : "status" \in DOMAIN scrape.retorno.historico[k]
  /\ scrape.retorno.historico[1]["status"] # scrape.retorno.historico[2]["status"]
  /\ scrape.retorno.status_atual = scrape.retorno.historico[1]["status"]

\* the scan has run: its input and output are in scrape.pares, scrape.historico
Escaneou == Len(scrape.feitos) = Len(Roteiro)

\* the positions where a record starts: the first pair and every "Data" pair
Inicios(ps) == {i \in 1..Len(ps) : i = 1 \/ ps[i].rotulo = "Data"}

\* the last position of the segment that starts at s
Fim(ps, s) ==
  CHOOSE j \in s..Len(ps) :
    /\ \A i \in (s + 1)..j : ps[i].rotulo # "Data"
    /\ j = Len(ps) \/ ps[j + 1].rotulo = "Data"

\* the fields set by the pairs of the segment that starts at s
CamposDe(ps, s) == {Campo(ps[i].rotulo) : i \in s..Fim(ps, s)} \ {UNDEFINED}

\* the last pair of the segment that starts at s that sets field f
Ultimo(ps, s, f) ==
  CHOOSE i \in s..Fim(ps, s) :
    /\ Campo(ps[i].rotulo) = f
    /\ \A k \in (i + 1)..Fim(ps, s) : Campo(ps[k].rotulo) # f

\* the segments that set at least one field, and the rank of one among them
Cheios(ps) == {s \in Inicios(ps) : CamposDe(ps, s) # {}}
Posto(ps, s) == Cardinality({t \in Cheios(ps) : t <= s})

\* C12: the scan emits one event per segment of the list (a segment runs from
\* the first pair or a "Data" pair up to the next "Data" pair) that sets a
\* field, in source order; no emitted event is empty, and each event has
\* exactly the fields set by the pairs of its own segment.
C12_ScanPorSegmentos ==
  Escaneou =>
    LET ps == scrape.pares
        h == scrape.historico
    IN /\ Len(h) = Cardinality(Cheios(ps))
       /\ \A k \in 1..Len(h) : DOMAIN h[k] # {}
       /\ \A s \in Cheios(ps) :
            LET ev == h[Posto(ps, s)]
            IN /\ DOMAIN ev = CamposDe(ps, s)
               /\ \A f \in DOMAIN ev : ev[f] = ps[Ultimo(ps, s, f)].valor

C12_Witness ==
  /\ Escaneou
  /\ Len(scrape.pares) = 3
  /\ scrape.pares[1].rotulo = "Status" /\ scrape.pares[2].rotulo = "Data"
  /\ scrape.pares[3].rotulo = "Status" /\ scrape.pares[3].valor # scrape.pares[1].valor
  /\ Len(scrape.historico) = 2
  /\ DOMAIN scrape.historico[1] = {"status"}
  /\ DOMAIN scrape.historico[2] = {"data", "status"}

\* the six labels the scan recognizes
Reconhecidos == DOMAIN keyMap
Reconhecido(p) == p.rotulo \in Reconhecidos

\* C13: the scan ignores unrecognized labels: its output equals its output on
\* the same list without the pairs whose label is not one of the six
\* recognized labels.
C13_IgnoraDesconhecidos ==
  Escaneou => scrape.historico = Historico(SelectSeq(scrape.pares, Reconhecido))

\* ---- properties of submit and eviction ----------------------------------------
\* a step of rastrear: one more id has been produced
Submeteu == proximo' = proximo + 1

\* C14: when a submit returns, the job it returns is in the registry with
\* status "processing" and no result or error, whatever the same submit
\* evicted; its fetch is scheduled and has not run, so nothing of the submit
\* depends on how the fetch ends.
C14_SubmitNaoEspera ==
  [][Submeteu =>
       LET job_id == uuid4
       IN /\ job_id \in DOMAIN jobs'
          /\ jobs'[job_id] = [status |-> "processing", result |-> NONE,
                              error |-> NONE, created_at |-> now]
          /\ tarefa'[job_id].pc = "agendada"
          /\ chamadas'[job_id] = 0
          /\ \A k \in DOMAIN jobs : now - jobs[k].created_at > RETENCAO => k \notin DOMAIN jobs']_vars

\* a submit that evicted the first job returned the second one
C14_Witness ==
  /\ proximo = 3
  /\ 1 \in DOMAIN removidos /\ 1 \notin DOMAIN jobs
  /\ 2 \in DOMAIN jobs /\ jobs[2].status = "processing" /\ jobs[2].created_at = now
  /\ tarefa[2].pc = "agendada"

\* C15: the id a submit returns was never returned before (it names no job
\* of the registry, no evicted job and no task), its job is inserted, and
\* every job of the registry that has not expired is kept as it was.
C15_IdsUnicos ==
  [][Submeteu =>
       /\ \E id \in JobIds :
            /\ tarefa[id].pc = "nao_criada"
            /\ id \notin DOMAIN jobs /\ id \notin DOMAIN removidos
            /\ id \in DOMAIN jobs'
            /\ tarefa'[id].pc = "agendada"
       /\ \A k \in DOMAIN jobs :
            ~(now - jobs[k].created_at > RETENCAO) =>
              k \in DOMAIN jobs' /\ jobs'[k] = jobs[k]
       /\ Cardinality(DOMAIN jobs') =
            Cardinality({k \in DOMAIN jobs : ~(now - jobs[k].created_at > RETENCAO)}) + 1]_vars

\* two jobs, submitted at different times, are in the registry together
C15_Witness ==
  /\ DOMAIN jobs = {1, 2}
  /\ jobs[1].created_at < jobs[2].created_at
  /\ jobs[1].status = "done" /\ jobs[2].status = "processing"

\* C18: once a job has been evicted its id stays out of the registry; the
\* steps of its background task, on success and on failure, leave the
\* registry as it is; and a poll that looks the id up answers 404.
C18_EvictadoEsquecido ==
  [][\A j \in Emitidos :
       j \notin DOMAIN jobs =>
         /\ j \notin DOMAIN jobs'
         /\ tarefa'[j] # tarefa[j] => jobs' = jobs
         /\ \A p \in Threads :
              (poll[p].pc = "L229" /\ poll[p].job_id = j /\ poll'[p] # poll[p])
                => poll'[p].resp = "404"]_vars

\* the task of an evicted job has ended, another job is in the registry, and
\* a later poll for the evicted id was answered 404
C18_Witness ==
  /\ 1 \notin DOMAIN jobs /\ 1 \in DOMAIN removidos
  /\ removidos[1].status = "processing"
  /\ tarefa[1].pc = "excecao"
  /\ 2 \in DOMAIN jobs
  /\ \E p \in Threads :
       poll[p].pc = "respondida" /\ poll[p].job_id = 1 /\ poll[p].resp = "404"

\* ---- properties of the fetch ------------------------------------------------
\* the message of exception e (what line 182 stores as the job's error)
\* contains the word w
Menciona(e, w) ==
  /\ Len(e.args) > 0
  /\ \E k \in 1..Len(e.args[1]) : e.args[1][k] = w

\* the carrier has been asked about the invoice: both forms were submitted
Consultou == Len(scrape.feitos) >= 5

\* C16: for an invoice the carrier has no record of, the fetch fails with a
\* not-found error whose message (the error a poll of the job then shows)
\* identifies the invoice number.
C16_NaoEncontrado ==
  (/\ scrape.numero_nf \notin NotasConhecidas
   /\ Consultou
   /\ scrape.pc = "finally")
    => /\ scrape.e.tipo = "NotFoundError"
       /\ Menciona(scrape.e, scrape.numero_nf)

\* s is an initial part of t
Prefixo(s, t) == Len(s) <= Len(t) /\ SubSeq(t, 1, Len(s)) = s

\* an exception is pending or has been raised to the caller
Falhou == scrape.e # SemExcecao

\* C19: the steps of the fetch run in the fixed order of the source; once a
\* step has failed no further step runs, the call holds no result, and it
\* ends by raising the failure to its caller; a result is returned only
\* after all the steps.
C19_OrdemFixa ==
  /\ [](/\ Prefixo(scrape.feitos, Roteiro)
        /\ Falhou => scrape.retorno = SemRetorno
        /\ Falhou => scrape.pc \in {"finally", "aexit", "levantou"}
        /\ scrape.pc = "levantou" => Falhou
        /\ TemRetorno => scrape.feitos = Roteiro)
  /\ [][Falhou => scrape'.feitos = scrape.feitos /\ scrape'.e # SemExcecao]_vars

\* the wait for the details panel timed out after the summary was extracted
C19_Witness ==
  /\ scrape.pc = "levantou"
  /\ scrape.feitos = SubSeq(Roteiro, 1, 7)
  /\ scrape.e = ErroDoPasso(scrape.arquivo, "abre_historico")
  /\ scrape.retorno = SemRetorno

====
